---------------------------- MODULE Spec2Model ----------------------------
(***************************************************************************)
(* warp-sessions, src/session.rs: WithSession::new binds a Session to a    *)
(* warp::Reply through its SessionStore, and WithSession::into_response    *)
(* attaches the resolved cookie as a Set-Cookie header.                    *)
(*                                                                         *)
(* Strings are sequences of byte values (<<115, 105, 100>> is "sid"), so   *)
(* that formatting and header validation act on their bytes.  Option<T>    *)
(* is a sequence of length 0 (None) or 1 (Some(x)).                        *)
(***************************************************************************)
EXTENDS Integers, Sequences, FiniteSets, TLC

\* The largest number of Set-Cookie headers the handler's own reply carries.
MaxHeaders == 1

\* The concurrent request tasks, each running WithSession::new on a session of its own.
Procs == {"p1", "p2"}

None == << >>
Some(x) == << x >>
IsSome(o) == Len(o) = 1
Unwrap(o) == o[1]

Ok(v) == [tag |-> "Ok", val |-> v]
Err(e) == [tag |-> "Err", val |-> e]
IsOk(r) == r.tag = "Ok"
IsErr(r) == r.tag = "Err"

---------------------------------------------------------------------------
(* Values the collaborators hand to the binder *)

EmptyString == << >>
\* "sid"
CookieName == <<115, 105, 100>>
\* "old": the cookie value a resolver or a configuration may have set already
SidOld == <<111, 108, 100>>
\* "new": an id the store assigns
SidNew == <<110, 101, 119>>
\* "a\nb": an id holding a byte that no header value may hold
SidBad == <<97, 10, 98>>
\* "/"
PathRoot == <<47>>
\* "t=1": a cookie of the handler's own
OtherCookie == <<116, 61, 49>>
\* "Strict"
Strict == <<83, 116, 114, 105, 99, 116>>
\* "text/html"
TextHtml == <<116, 101, 120, 116, 47, 104, 116, 109, 108>>

\* The ids of the sessions: one per request task (the requests are for different sessions).
SessionIdOf(p) == IF p = "p1" THEN <<49>> ELSE <<50>>
SessionData == {"kv"}
SessionIds == {SessionIdOf(p) : p \in Procs}

\* async_session::Session, as far as the binder and the store read it
Sessions(p) ==
    [id : {SessionIdOf(p)}, data : SessionData, changed : BOOLEAN, destroyed : BOOLEAN]

\* crate::cookie::CookieOptions: value and max-age, and the static attributes
CookieOptionsIn ==
    [cookie_name : {CookieName},
     cookie_value : {None, Some(SidOld)},
     max_age : {None, Some(60)},
     domain : {None},
     path : {Some(PathRoot)},
     secure : {FALSE},
     http_only : {TRUE},
     same_site : {Some(Strict)}]

\* SessionWithStore: the store itself is the shared variable session_store
SessionWithStores(p) == [session : Sessions(p), cookie_options : CookieOptionsIn]

\* The response of the handler's reply (warp::reply::html, with n cookies of its own)
RECURSIVE Repeat(_, _)
Repeat(x, n) == IF n = 0 THEN << >> ELSE <<x>> \o Repeat(x, n - 1)
ReplyResponse(n) ==
    [headers |-> << <<"content-type", TextHtml>> >> \o Repeat(<<"set-cookie", OtherCookie>>, n)]
Replies == {ReplyResponse(n) : n \in 0..MaxHeaders}

\* What the store may answer (async_session::Result)
Causes == {"io", "timeout"}
DestroyResults == {Ok("unit")} \cup {Err(c) : c \in Causes}
StoreResults == {Ok(None), Ok(Some(SidNew)), Ok(Some(SidBad))} \cup {Err(c) : c \in Causes}

---------------------------------------------------------------------------
(* The pure parts of WithSession::new *)

\* Session::is_destroyed and Session::data_changed, as session.rs reads them
is_destroyed(session) == session.destroyed
data_changed(session) == session.changed

\* A branch that clears the whole store for a destroyed session
StoreOp_ClearsStore(session) ==
    IF is_destroyed(session) THEN "clear_store"
    ELSE IF data_changed(session) THEN "store_session"
    ELSE "none"

\* A branch that persists every session that is not destroyed, changed or not
StoreOp_StoresUnchanged(session) ==
    IF is_destroyed(session) THEN "destroy_session" ELSE "store_session"

\* A branch that tests data_changed first, so that change dominates destruction
StoreOp_ChangeDominates(session) ==
    IF data_changed(session) THEN "store_session"
    ELSE IF is_destroyed(session) THEN "destroy_session"
    ELSE "none"

\* The store operation the flags select: destruction dominates change
StoreOp(session) ==
    IF is_destroyed(session) THEN "destroy_session"
    ELSE IF data_changed(session) THEN "store_session"
    ELSE "none"

\* A destroyed branch that expires the cookie and loses the configured path with it
DestroyedCookie_DropsPath(co) ==
    [co EXCEPT !.cookie_value = Some(EmptyString), !.max_age = Some(0), !.path = None]

\* A destroyed branch that empties the value and forgets to expire the cookie
DestroyedCookie_KeepsMaxAge(co) ==
    [co EXCEPT !.cookie_value = Some(EmptyString)]

\* The cookie mutation of the destroyed branch, made before destroy_session is called
DestroyedCookie(co) ==
    [co EXCEPT !.cookie_value = Some(EmptyString), !.max_age = Some(0)]

\* A match whose None arm clears the cookie value instead of leaving it
StoredCookie_ClearsOnNone(co, sid) ==
    IF IsSome(sid)
    THEN [co EXCEPT !.cookie_value = Some(Unwrap(sid))]
    ELSE [co EXCEPT !.cookie_value = None]

\* A match arm that expires the cookie of a stored session as if it were destroyed
StoredCookie_ForcesMaxAge(co, sid) ==
    IF IsSome(sid)
    THEN [co EXCEPT !.cookie_value = Some(Unwrap(sid)), !.max_age = Some(0)]
    ELSE co

\* The match on what store_session returned: Some(sid) sets the value, None leaves it
StoredCookie(co, sid) ==
    IF IsSome(sid) THEN [co EXCEPT !.cookie_value = Some(Unwrap(sid))] ELSE co

\* map_err of the two store calls
DestroyError(source) == [kind |-> "DestroyError", source |-> source]
StoreError(source) == [kind |-> "StoreError", source |-> source]

\* Ok(WithSession { reply, cookie_options })
WithSession(reply, co) == Ok([reply |-> reply, cookie_options |-> co])

\* A destroy branch that drops the store's error and returns the reply all the same
AfterDestroy_SwallowsError(reply, co, r) == WithSession(reply, co)

\* The value WithSession::new returns once destroy_session has answered r
AfterDestroy(reply, co, r) ==
    IF IsErr(r) THEN Err(DestroyError(r.val)) ELSE WithSession(reply, co)

\* A store branch that answers a failed store with a reply carrying a fresh id
AfterStore_OptimisticId(reply, co, r) ==
    IF IsErr(r)
    THEN WithSession(reply, [co EXCEPT !.cookie_value = Some(SidNew)])
    ELSE WithSession(reply, StoredCookie(co, r.val))

\* A store branch that drops the store's error and returns the reply all the same
AfterStore_SwallowsError(reply, co, r) ==
    IF IsErr(r) THEN WithSession(reply, co) ELSE WithSession(reply, StoredCookie(co, r.val))

\* A store branch that takes a store answering no id for a failed one
AfterStore_RejectsNoId(reply, co, r) ==
    IF IsErr(r) \/ ~IsSome(r.val)
    THEN Err(StoreError("no id"))
    ELSE WithSession(reply, StoredCookie(co, r.val))

\* The value WithSession::new returns once store_session has answered r
AfterStore(reply, co, r) ==
    IF IsErr(r) THEN Err(StoreError(r.val)) ELSE WithSession(reply, StoredCookie(co, r.val))

---------------------------------------------------------------------------
(* The pure parts of WithSession::into_response *)

RECURSIVE Digits(_)
Digits(n) == IF n < 10 THEN <<48 + n>> ELSE Digits(n \div 10) \o <<48 + (n % 10)>>

\* CookieOptions' Display: <name>=<value>; Max-Age=<n>; Path=..; Domain=..; Secure;
\* HttpOnly; SameSite=..
to_string(co) ==
    co.cookie_name \o <<61>>
      \o (IF IsSome(co.cookie_value) THEN Unwrap(co.cookie_value) ELSE EmptyString)
      \o (IF IsSome(co.max_age)
          THEN <<59, 32, 77, 97, 120, 45, 65, 103, 101, 61>> \o Digits(Unwrap(co.max_age))
          ELSE << >>)
      \o (IF IsSome(co.path)
          THEN <<59, 32, 80, 97, 116, 104, 61>> \o Unwrap(co.path) ELSE << >>)
      \o (IF IsSome(co.domain)
          THEN <<59, 32, 68, 111, 109, 97, 105, 110, 61>> \o Unwrap(co.domain) ELSE << >>)
      \o (IF co.secure THEN <<59, 32, 83, 101, 99, 117, 114, 101>> ELSE << >>)
      \o (IF co.http_only THEN <<59, 32, 72, 116, 116, 112, 79, 110, 108, 121>> ELSE << >>)
      \o (IF IsSome(co.same_site)
          THEN <<59, 32, 83, 97, 109, 101, 83, 105, 116, 101, 61>> \o Unwrap(co.same_site)
          ELSE << >>)

\* http::header::HeaderValue::from_str: every byte is a tab or a visible character
IsValidHeaderByte(b) == (b >= 32 /\ b # 127) \/ b = 9
HeaderValueFromStr(s) ==
    IF \A i \in 1..Len(s) : IsValidHeaderByte(s[i]) THEN Ok(s) ELSE Err("InvalidHeaderValue")

\* HeaderMap::insert, as warp::reply::with_header does: the new entry replaces those
\* of the same name
HeadersInsert(headers, name, value) ==
    Append(SelectSeq(headers, LAMBDA h : h[1] # name), <<name, value>>)

\* HeaderMap::append: the new entry follows those the map already holds
HeadersAppend(headers, name, value) == Append(headers, <<name, value>>)

\* An into_response that takes an empty cookie value for an unset one
into_response_SkipsEmpty(ws) ==
    LET res == ws.reply
        co == ws.cookie_options
    IN  IF IsSome(co.cookie_value) /\ Unwrap(co.cookie_value) # EmptyString
        THEN LET hv == HeaderValueFromStr(to_string(co))
             IN  IF IsErr(hv)
                 THEN [tag |-> "Panic", val |-> hv.val]
                 ELSE [tag |-> "Response",
                       val |-> [res EXCEPT
                                  !.headers = HeadersAppend(@, "set-cookie", hv.val)]]
        ELSE [tag |-> "Response", val |-> res]

\* into_response: the reply's response, with the cookie appended when its value is set;
\* unwrap panics on a string that is no header value
into_response(ws) ==
    LET res == ws.reply
        co == ws.cookie_options
    IN  IF IsSome(co.cookie_value)
        THEN LET hv == HeaderValueFromStr(to_string(co))
             IN  IF IsErr(hv)
                 THEN [tag |-> "Panic", val |-> hv.val]
                 ELSE [tag |-> "Response",
                       val |-> [res EXCEPT
                                  !.headers = HeadersAppend(@, "set-cookie", hv.val)]]
        ELSE [tag |-> "Response", val |-> res]

---------------------------------------------------------------------------
(* State *)

VARIABLES
    pc,                 \* where each request task stands
    reply,              \* the reply argument of WithSession::new
    session_with_store, \* the session_with_store argument of WithSession::new
    cookie_options,     \* the local cookie_options of WithSession::new
    calls,              \* the store calls the invocation has issued, in order
    answer,             \* what the awaited store call resolved to
    result,             \* what WithSession::new returned
    response,           \* what into_response produced from the returned reply
    session_store       \* the shared store: the data persisted under each session id

vars ==
    <<pc, reply, session_with_store, cookie_options, calls, answer, result, response,
      session_store>>

Init ==
    /\ pc = [p \in Procs |-> "idle"]
    /\ reply = [p \in Procs |-> None]
    /\ session_with_store = [p \in Procs |-> None]
    /\ cookie_options = [p \in Procs |-> None]
    /\ calls = [p \in Procs |-> << >>]
    /\ answer = [p \in Procs |-> None]
    /\ result = [p \in Procs |-> None]
    /\ response = [p \in Procs |-> None]
    /\ session_store = [id \in SessionIds |-> None]

\* A store call that hands over a session of the same id with an emptied data bag
StoreCall_EmptiesData(op, session) ==
    [op |-> op, session |-> [session EXCEPT !.data = "empty"]]

\* A store call as the store receives it: the operation and the session moved into it
StoreCall(op, session) == [op |-> op, session |-> session]

\* A WithSession::new that holds a lock shared by all invocations across its store
\* call: it starts only while no other invocation is at its await
New_TakesLock(p) ==
    /\ pc[p] = "idle"
    /\ \A q \in Procs \ {p} : pc[q] \notin {"destroy_session", "store_session"}
    /\ \E r \in Replies, sws \in SessionWithStores(p) :
         LET op == StoreOp(sws.session)
             co == IF op = "destroy_session"
                   THEN DestroyedCookie(sws.cookie_options)
                   ELSE sws.cookie_options
         IN  /\ reply' = [reply EXCEPT ![p] = Some(r)]
             /\ session_with_store' = [session_with_store EXCEPT ![p] = Some(sws)]
             /\ cookie_options' = [cookie_options EXCEPT ![p] = Some(co)]
             /\ IF op = "none"
                THEN /\ calls' = calls
                     /\ result' = [result EXCEPT ![p] = Some(WithSession(r, co))]
                     /\ pc' = [pc EXCEPT ![p] = "returned"]
                ELSE /\ calls' = [calls EXCEPT ![p] = Append(@, StoreCall(op, sws.session))]
                     /\ result' = result
                     /\ pc' = [pc EXCEPT ![p] = op]
    /\ UNCHANGED <<answer, response, session_store>>

\* WithSession::new from its entry to its first await, or to its return when the
\* session is neither destroyed nor changed
New(p) ==
    /\ pc[p] = "idle"
    /\ \E r \in Replies, sws \in SessionWithStores(p) :
         LET op == StoreOp(sws.session)
             co == IF op = "destroy_session"
                   THEN DestroyedCookie(sws.cookie_options)
                   ELSE sws.cookie_options
         IN  /\ reply' = [reply EXCEPT ![p] = Some(r)]
             /\ session_with_store' = [session_with_store EXCEPT ![p] = Some(sws)]
             /\ cookie_options' = [cookie_options EXCEPT ![p] = Some(co)]
             /\ IF op = "none"
                THEN /\ calls' = calls
                     /\ result' = [result EXCEPT ![p] = Some(WithSession(r, co))]
                     /\ pc' = [pc EXCEPT ![p] = "returned"]
                ELSE /\ calls' = [calls EXCEPT ![p] = Append(@, StoreCall(op, sws.session))]
                     /\ result' = result
                     /\ pc' = [pc EXCEPT ![p] = op]
    /\ UNCHANGED <<answer, response, session_store>>

\* The store as destroy_session leaves it: an acknowledged destroy removes the session
StoreAfterDestroy(store, session, r) ==
    IF IsOk(r) THEN [store EXCEPT ![session.id] = None] ELSE store

\* The store as store_session leaves it: an acknowledged store persists the data bag
StoreAfterStore(store, session, r) ==
    IF IsOk(r) THEN [store EXCEPT ![session.id] = Some(session.data)] ELSE store

\* SessionStore::load_session, by the id the session is kept under
load_session(store, id) == store[id]

\* destroy_session answers, and WithSession::new runs from the await to its return
DestroyAnswer(p) ==
    /\ pc[p] = "destroy_session"
    /\ \E r \in DestroyResults :
         /\ session_store' =
              StoreAfterDestroy(session_store, calls[p][Len(calls[p])].session, r)
         /\ answer' = [answer EXCEPT ![p] = Some(r)]
         /\ result' = [result EXCEPT
                         ![p] = Some(AfterDestroy(Unwrap(reply[p]), Unwrap(cookie_options[p]), r))]
    /\ pc' = [pc EXCEPT ![p] = "returned"]
    /\ UNCHANGED <<reply, session_with_store, cookie_options, calls, response>>

\* A store branch that calls store_session again when it failed, and returns once the
\* retry has answered
StoreAnswer_Retries(p) ==
    /\ pc[p] = "store_session"
    /\ \E r \in StoreResults :
         /\ session_store' =
              StoreAfterStore(session_store, calls[p][Len(calls[p])].session, r)
         /\ answer' = [answer EXCEPT ![p] = Some(r)]
         /\ IF IsErr(r) /\ Len(calls[p]) < 2
            THEN /\ calls' = [calls EXCEPT ![p] = Append(@, calls[p][Len(calls[p])])]
                 /\ UNCHANGED <<pc, result>>
            ELSE /\ result' = [result EXCEPT
                                 ![p] = Some(AfterStore(Unwrap(reply[p]),
                                                        Unwrap(cookie_options[p]), r))]
                 /\ pc' = [pc EXCEPT ![p] = "returned"]
                 /\ calls' = calls
    /\ UNCHANGED <<reply, session_with_store, cookie_options, response>>

\* store_session answers, and WithSession::new runs from the await to its return
StoreAnswer(p) ==
    /\ pc[p] = "store_session"
    /\ \E r \in StoreResults :
         /\ session_store' =
              StoreAfterStore(session_store, calls[p][Len(calls[p])].session, r)
         /\ answer' = [answer EXCEPT ![p] = Some(r)]
         /\ result' = [result EXCEPT
                         ![p] = Some(AfterStore(Unwrap(reply[p]), Unwrap(cookie_options[p]), r))]
    /\ pc' = [pc EXCEPT ![p] = "returned"]
    /\ UNCHANGED <<reply, session_with_store, cookie_options, calls, response>>

\* A cancellation that hands back the reply with the cookie options as they stood at
\* the await
Cancel_ReturnsPartial(p) ==
    /\ pc[p] \in {"destroy_session", "store_session"}
    /\ \E carried_out \in BOOLEAN :
         session_store' =
             IF ~carried_out THEN session_store
             ELSE IF pc[p] = "destroy_session"
             THEN StoreAfterDestroy(session_store, calls[p][Len(calls[p])].session, Ok("unit"))
             ELSE StoreAfterStore(session_store, calls[p][Len(calls[p])].session, Ok(None))
    /\ result' = [result EXCEPT
                    ![p] = Some(WithSession(Unwrap(reply[p]), Unwrap(cookie_options[p])))]
    /\ pc' = [pc EXCEPT ![p] = "cancelled"]
    /\ UNCHANGED <<reply, session_with_store, cookie_options, calls, answer, response>>

\* The surrounding framework drops the future of WithSession::new at its await: the
\* locals are dropped with it and nothing is returned. The store may or may not have
\* carried the call out before the drop.
Cancel(p) ==
    /\ pc[p] \in {"destroy_session", "store_session"}
    /\ \E carried_out \in BOOLEAN :
         session_store' =
             IF ~carried_out THEN session_store
             ELSE IF pc[p] = "destroy_session"
             THEN StoreAfterDestroy(session_store, calls[p][Len(calls[p])].session, Ok("unit"))
             ELSE StoreAfterStore(session_store, calls[p][Len(calls[p])].session, Ok(None))
    /\ cookie_options' = [cookie_options EXCEPT ![p] = None]
    /\ pc' = [pc EXCEPT ![p] = "cancelled"]
    /\ UNCHANGED <<reply, session_with_store, calls, answer, result, response>>

\* warp turns the returned reply into the response
IntoResponse(p) ==
    /\ pc[p] = "returned"
    /\ IsOk(Unwrap(result[p]))
    /\ response' = [response EXCEPT ![p] = Some(into_response(Unwrap(result[p]).val))]
    /\ pc' = [pc EXCEPT ![p] = "responded"]
    /\ UNCHANGED <<reply, session_with_store, cookie_options, calls, answer, result,
                   session_store>>

\* The request is over (the response sent, the rejection or the panic handled, the
\* cancelled future dropped) and the task takes its next request
Finish(p) ==
    /\ \/ pc[p] = "responded"
       \/ pc[p] = "cancelled"
       \/ pc[p] = "returned" /\ IsErr(Unwrap(result[p]))
    /\ pc' = [pc EXCEPT ![p] = "idle"]
    /\ reply' = [reply EXCEPT ![p] = None]
    /\ session_with_store' = [session_with_store EXCEPT ![p] = None]
    /\ cookie_options' = [cookie_options EXCEPT ![p] = None]
    /\ calls' = [calls EXCEPT ![p] = << >>]
    /\ answer' = [answer EXCEPT ![p] = None]
    /\ result' = [result EXCEPT ![p] = None]
    /\ response' = [response EXCEPT ![p] = None]
    /\ UNCHANGED session_store

Next ==
    \E p \in Procs :
        \/ New(p)
        \/ DestroyAnswer(p)
        \/ StoreAnswer(p)
        \/ Cancel(p)
        \/ IntoResponse(p)
        \/ Finish(p)

Spec == Init /\ [][Next]_vars

---------------------------------------------------------------------------
(* Reading the state *)

Returned(p) == pc[p] \in {"returned", "responded"}
\* The SessionWithStore and the reply the invocation received
In(p) == Unwrap(session_with_store[p])
InReply(p) == Unwrap(reply[p])
\* WithSession::new returned Ok: a WithSession reply was produced
Produced(p) == Returned(p) /\ IsOk(Unwrap(result[p]))
Out(p) == Unwrap(result[p]).val
Failed(p) == Returned(p) /\ IsErr(Unwrap(result[p]))
\* into_response returned a response
Responded(p) == pc[p] = "responded" /\ Unwrap(response[p]).tag = "Response"
Panicked(p) == pc[p] = "responded" /\ Unwrap(response[p]).tag = "Panic"
Resp(p) == Unwrap(response[p]).val
CallsOf(p, op) == Len(SelectSeq(calls[p], LAMBDA c : c.op = op))
SetCookies(headers) == SelectSeq(headers, LAMBDA h : h[1] = "set-cookie")
\* The incoming options with the cookie expired: value "" and max-age 0
Expired(co) == [co EXCEPT !.cookie_value = Some(EmptyString), !.max_age = Some(0)]
DestroyedIn(p) == pc[p] # "idle" /\ In(p).session.destroyed
ChangedIn(p) == pc[p] # "idle" /\ In(p).session.changed /\ ~In(p).session.destroyed
UnchangedIn(p) == pc[p] # "idle" /\ ~In(p).session.changed /\ ~In(p).session.destroyed

---------------------------------------------------------------------------
(* Claims *)

\* C1: for a destroyed session, changed or not and whatever the incoming options,
\* WithSession::new calls destroy_session exactly once and store_session never; the
\* reply produced when destroy succeeds has cookie value "" and max-age 0, and the
\* response made from it carries one more Set-Cookie header, the expiring cookie.
C1_DestroyedExpiresCookie ==
    \A p \in Procs :
        DestroyedIn(p) =>
            /\ CallsOf(p, "destroy_session") = 1
            /\ CallsOf(p, "store_session") = 0
            /\ Produced(p) =>
                 /\ Out(p).cookie_options.cookie_value = Some(EmptyString)
                 /\ Out(p).cookie_options.max_age = Some(0)
                 /\ Out(p).cookie_options = Expired(In(p).cookie_options)
            /\ Responded(p) =>
                 Resp(p).headers =
                     Append(InReply(p).headers,
                            <<"set-cookie", to_string(Expired(In(p).cookie_options))>>)

\* C1 witness: a destroyed and changed session, with a cookie value and a max-age
\* already set, whose destroy succeeded and whose response was made.
C1_Witness ==
    \E p \in Procs :
        /\ DestroyedIn(p) /\ In(p).session.changed
        /\ In(p).cookie_options.cookie_value = Some(SidOld)
        /\ In(p).cookie_options.max_age = Some(60)
        /\ IsSome(answer[p]) /\ IsOk(Unwrap(answer[p]))
        /\ Responded(p)

\* C2: for a changed, not destroyed session, WithSession::new calls store_session
\* exactly once and destroy_session never; when store_session returns an id the
\* produced reply's cookie value is that id and its max-age is the incoming one.
C2_ChangedStoresAndSetsId ==
    \A p \in Procs :
        ChangedIn(p) =>
            /\ CallsOf(p, "store_session") = 1
            /\ CallsOf(p, "destroy_session") = 0
            /\ (Returned(p) /\ IsOk(Unwrap(answer[p])) /\ IsSome(Unwrap(answer[p]).val)) =>
                 /\ Produced(p)
                 /\ Out(p).cookie_options.cookie_value = Some(Unwrap(Unwrap(answer[p]).val))
                 /\ Out(p).cookie_options.max_age = In(p).cookie_options.max_age

\* C2 witness: a changed session whose store returned a new id, with max-age 60.
C2_Witness ==
    \E p \in Procs :
        /\ ChangedIn(p) /\ Produced(p)
        /\ Unwrap(answer[p]) = Ok(Some(SidNew))
        /\ In(p).cookie_options.max_age = Some(60)
        /\ In(p).cookie_options.cookie_value = Some(SidOld)

\* C3 as stated: for an unchanged, not destroyed session and every incoming
\* CookieOptions, WithSession::new calls no store operation and the response has no
\* Set-Cookie header (none beyond those of the handler's own reply).
C3_UnchangedNeverSetsCookie ==
    \A p \in Procs :
        UnchangedIn(p) =>
            /\ calls[p] = << >>
            /\ Responded(p) => SetCookies(Resp(p).headers) = SetCookies(InReply(p).headers)

\* C3 as amended: for an unchanged, not destroyed session WithSession::new calls no
\* store operation and returns the reply with the incoming CookieOptions as they
\* came; the response has no Set-Cookie header added when the incoming cookie value
\* is unset, and one added, carrying the incoming options, when it is set.
C3_UnchangedPassesCookieThrough ==
    \A p \in Procs :
        UnchangedIn(p) =>
            /\ calls[p] = << >>
            /\ Produced(p)
            /\ Out(p) = [reply |-> InReply(p), cookie_options |-> In(p).cookie_options]
            /\ Responded(p) =>
                 Resp(p).headers =
                     IF IsSome(In(p).cookie_options.cookie_value)
                     THEN Append(InReply(p).headers,
                                 <<"set-cookie", to_string(In(p).cookie_options)>>)
                     ELSE InReply(p).headers

\* C3 witness: an unchanged session whose incoming cookie value was set, responded.
C3_Witness ==
    \E p \in Procs :
        /\ UnchangedIn(p) /\ Responded(p)
        /\ In(p).cookie_options.cookie_value = Some(SidOld)

\* C4: when the store call fails, WithSession::new returns the error and no reply:
\* DestroyError with the cause of a failed destroy_session, StoreError with the cause
\* of a failed store_session; nothing else is returned (the cookie options mutated
\* before the destroy call are in no returned value) and no response is ever made.
C4_StoreFailureYieldsErrorOnly ==
    \A p \in Procs :
        (IsSome(answer[p]) /\ IsErr(Unwrap(answer[p]))) =>
            /\ Returned(p)
            /\ ~Produced(p)
            /\ response[p] = None
            /\ DestroyedIn(p) =>
                 Unwrap(result[p]) =
                     Err([kind |-> "DestroyError", source |-> Unwrap(answer[p]).val])
            /\ ChangedIn(p) =>
                 Unwrap(result[p]) =
                     Err([kind |-> "StoreError", source |-> Unwrap(answer[p]).val])

\* C4 witness: one invocation ended in DestroyError and another in StoreError, each
\* with a cause of its own.
C4_Witness ==
    \E p, q \in Procs :
        /\ DestroyedIn(p) /\ Failed(p)
        /\ Unwrap(result[p]).val = [kind |-> "DestroyError", source |-> "io"]
        /\ ChangedIn(q) /\ Failed(q)
        /\ Unwrap(result[q]).val = [kind |-> "StoreError", source |-> "timeout"]

\* C5: into_response adds a Set-Cookie header to the reply's response if and only if
\* the reply's cookie value is set, the empty string included; when it is unset the
\* response is the reply's own response, and into_response always returns it.
C5_HeaderIffValueSet ==
    \A p \in Procs :
        pc[p] = "responded" =>
            /\ Responded(p) /\ IsSome(Out(p).cookie_options.cookie_value) =>
                 Resp(p) =
                     [Out(p).reply EXCEPT
                        !.headers = Append(@, <<"set-cookie", to_string(Out(p).cookie_options)>>)]
            /\ ~IsSome(Out(p).cookie_options.cookie_value) =>
                 /\ Responded(p)
                 /\ Resp(p) = Out(p).reply

\* C5 witness: one response made from a reply whose cookie value is the empty string,
\* and one made from a reply whose cookie value is unset.
C5_Witness ==
    \E p, q \in Procs :
        /\ Responded(p) /\ Out(p).cookie_options.cookie_value = Some(EmptyString)
        /\ Responded(q) /\ Out(q).cookie_options.cookie_value = None

\* C6 as stated: every invocation of WithSession::new performs exactly one store
\* call, whatever the session's flags.
C6_ExactlyOneStoreCall ==
    \A p \in Procs : Returned(p) => Len(calls[p]) = 1

\* C6 as amended: every invocation performs at most one store call: exactly one,
\* destroy_session, for a destroyed session; exactly one, store_session, for a changed
\* and not destroyed session; and none for a session neither destroyed nor changed.
C6_OneStoreCallUnlessUnchanged ==
    \A p \in Procs :
        pc[p] # "idle" =>
            /\ Len(calls[p]) <= 1
            /\ DestroyedIn(p) => [c \in 1..Len(calls[p]) |-> calls[p][c].op] = <<"destroy_session">>
            /\ ChangedIn(p) => [c \in 1..Len(calls[p]) |-> calls[p][c].op] = <<"store_session">>
            /\ UnchangedIn(p) => calls[p] = << >>

\* C6 witness: an invocation returned with one call made and another with none.
C6_Witness ==
    \E p, q \in Procs :
        /\ Returned(p) /\ Len(calls[p]) = 1 /\ DestroyedIn(p) /\ In(p).session.changed
        /\ Returned(q) /\ Len(calls[q]) = 0

\* C7: into_response never panics; a cookie string that is no header value is
\* reported as an error value.
C7_IntoResponseNeverPanics ==
    \A p \in Procs : ~Panicked(p)

\* C8 as stated: for a changed, not destroyed session whose store_session succeeds
\* and returns no id, the reply's cookie value is unset and the response has no
\* Set-Cookie header added, for every incoming CookieOptions.
C8_NoIdLeavesCookieUnset ==
    \A p \in Procs :
        (ChangedIn(p) /\ Returned(p) /\ Unwrap(answer[p]) = Ok(None)) =>
            /\ Produced(p)
            /\ Out(p).cookie_options.cookie_value = None
            /\ Responded(p) => SetCookies(Resp(p).headers) = SetCookies(InReply(p).headers)

\* C8 as amended: for a changed, not destroyed session whose store_session succeeds
\* and returns no id, the reply's cookie options are the incoming ones: the cookie
\* value is unset only if it came in unset, and the response has a Set-Cookie header
\* added exactly when the incoming cookie value was set.
C8_NoIdKeepsIncomingCookie ==
    \A p \in Procs :
        (ChangedIn(p) /\ Returned(p) /\ Unwrap(answer[p]) = Ok(None)) =>
            /\ Produced(p)
            /\ Out(p).cookie_options = In(p).cookie_options
            /\ Responded(p) =>
                 Resp(p).headers =
                     IF IsSome(In(p).cookie_options.cookie_value)
                     THEN Append(InReply(p).headers,
                                 <<"set-cookie", to_string(In(p).cookie_options)>>)
                     ELSE InReply(p).headers

\* C8 witness: the store returned no id for a changed session whose cookie value was
\* already set, and the response was made.
C8_Witness ==
    \E p \in Procs :
        /\ ChangedIn(p) /\ Responded(p)
        /\ Unwrap(answer[p]) = Ok(None)
        /\ In(p).cookie_options.cookie_value = Some(SidOld)

\* C9: when the store call of an invocation did not fail (or none was made),
\* WithSession::new returns Ok, for an unchanged, a changed and a destroyed session.
C9_OkWhenStoreSucceeds ==
    \A p \in Procs :
        (Returned(p) /\ (IsSome(answer[p]) => IsOk(Unwrap(answer[p])))) => Produced(p)

\* C9 witness: a changed session whose store succeeded without an id, and a destroyed
\* session whose destroy succeeded, both returned.
C9_Witness ==
    \E p, q \in Procs :
        /\ ChangedIn(p) /\ Produced(p) /\ Unwrap(answer[p]) = Ok(None)
        /\ DestroyedIn(q) /\ Produced(q)

\* C10 as stated: the response carries at most one Set-Cookie header, whatever headers
\* the reply's own response has, and none (beyond those of the reply's own response)
\* when the session was neither destroyed nor given an id by the store.
C10_AtMostOneSetCookie ==
    \A p \in Procs :
        Responded(p) =>
            /\ Len(SetCookies(Resp(p).headers)) <= 1
            /\ (UnchangedIn(p) \/ (ChangedIn(p) /\ Unwrap(answer[p]) = Ok(None))) =>
                 SetCookies(Resp(p).headers) = SetCookies(InReply(p).headers)

\* C10 as amended: into_response keeps the headers of the reply's own response and
\* adds at most one Set-Cookie header to them: one when the reply's cookie value is
\* set and none when it is unset.
C10_AtMostOneSetCookieAdded ==
    \A p \in Procs :
        Responded(p) =>
            /\ SubSeq(Resp(p).headers, 1, Len(InReply(p).headers)) = InReply(p).headers
            /\ Len(SetCookies(Resp(p).headers)) - Len(SetCookies(InReply(p).headers))
                 = IF IsSome(Out(p).cookie_options.cookie_value) THEN 1 ELSE 0
            /\ Len(Resp(p).headers) - Len(InReply(p).headers) <= 1

\* C10 witness: a response made from a reply that had a Set-Cookie header of its own
\* and whose cookie value was set.
C10_Witness ==
    \E p \in Procs :
        /\ Responded(p)
        /\ Len(SetCookies(InReply(p).headers)) >= 1
        /\ IsSome(Out(p).cookie_options.cookie_value)

\* C11: in every execution of WithSession::new that issues a store call, the reply
\* exists only after that call has completed successfully: while the call is pending
\* nothing has been returned, and after it failed no reply is ever produced.
C11_ReplyOnlyAfterStoreAck ==
    \A p \in Procs :
        /\ pc[p] \in {"destroy_session", "store_session"} =>
             answer[p] = None /\ result[p] = None /\ response[p] = None
        /\ (IsSome(result[p]) /\ IsOk(Unwrap(result[p])) /\ calls[p] # << >>) =>
             IsSome(answer[p]) /\ IsOk(Unwrap(answer[p]))
        /\ IsSome(response[p]) => IsSome(result[p]) /\ IsOk(Unwrap(result[p]))

\* C11 witness: an invocation with its store call pending beside one whose reply was
\* produced after its store call succeeded.
C11_Witness ==
    \E p, q \in Procs :
        /\ pc[p] = "store_session"
        /\ Produced(q) /\ calls[q] # << >> /\ IsOk(Unwrap(answer[q]))

\* The store calls of an invocation that have not been answered
Pending(p) == Len(calls[p]) - Len(answer[p])

\* C12: an invocation issues at most one store call and never has two pending; once a
\* store call has failed, the invocation issues no further call and has returned the
\* error, which stays its result until the request is over.
C12_OneCallNoRetry ==
    /\ [](\A p \in Procs :
            /\ Len(calls[p]) <= 1
            /\ (pc[p] # "cancelled") => Pending(p) = (IF pc[p] \in {"destroy_session", "store_session"} THEN 1 ELSE 0)
            /\ (IsSome(answer[p]) /\ IsErr(Unwrap(answer[p]))) => Failed(p))
    /\ [][\A p \in Procs :
            (IsSome(answer[p]) /\ IsErr(Unwrap(answer[p]))) =>
                \/ pc'[p] = "idle" /\ calls'[p] = << >>
                \/ calls'[p] = calls[p] /\ result'[p] = result[p] /\ pc'[p] = pc[p]]_vars

\* C12 witness: a store call failed and the invocation ended with the error, having
\* made that one call.
C12_Witness ==
    \E p \in Procs :
        /\ ChangedIn(p) /\ Failed(p)
        /\ Unwrap(answer[p]) = Err("io")
        /\ Len(calls[p]) = 1

\* C13: when the awaited store call is cancelled, the invocation being abandoned at
\* its await, no reply and no response are produced, and the cookie options mutated
\* before the await (value "", max-age 0 on the destroyed branch) are held nowhere.
C13_CancelLeavesNothing ==
    \A p \in Procs :
        pc[p] = "cancelled" =>
            /\ result[p] = None
            /\ response[p] = None
            /\ cookie_options[p] = None
            /\ answer[p] = None

\* C13 witness: a destroyed session whose destroy_session call was cancelled, the
\* cookie having been expired before the await.
C13_Witness ==
    \E p \in Procs :
        /\ pc[p] = "cancelled"
        /\ In(p).session.destroyed
        /\ In(p).cookie_options.cookie_value = Some(SidOld)
        /\ calls[p] # << >>

\* The attributes of CookieOptions other than the cookie value and max-age
Statics(co) == [co EXCEPT !.cookie_value = None, !.max_age = None]

\* C14: WithSession::new leaves every attribute of CookieOptions other than the cookie
\* value and max-age as it came in, at its await and in the reply; max-age differs from
\* the incoming one only for a destroyed session; and for a session not destroyed, when
\* no id is returned (no store call, or store_session returns None), the reply's
\* CookieOptions are the incoming ones, cookie value included.
C14_OnlyValueAndMaxAgeChange ==
    \A p \in Procs :
        /\ IsSome(cookie_options[p]) =>
             Statics(Unwrap(cookie_options[p])) = Statics(In(p).cookie_options)
        /\ Produced(p) =>
             /\ Statics(Out(p).cookie_options) = Statics(In(p).cookie_options)
             /\ Out(p).cookie_options.max_age # In(p).cookie_options.max_age =>
                  In(p).session.destroyed
             /\ (~In(p).session.destroyed
                   /\ (calls[p] = << >> \/ Unwrap(answer[p]) = Ok(None))) =>
                  Out(p).cookie_options = In(p).cookie_options

\* C14 witness: a reply for a destroyed session beside a reply for a changed session
\* whose store returned no id and whose cookie value was already set.
C14_Witness ==
    \E p, q \in Procs :
        /\ Produced(p) /\ In(p).session.destroyed
        /\ Out(p).cookie_options.max_age # In(p).cookie_options.max_age
        /\ Produced(q) /\ ChangedIn(q) /\ Unwrap(answer[q]) = Ok(None)
        /\ In(q).cookie_options.cookie_value = Some(SidOld)

\* C15: the session handed to store_session or destroy_session is the session the
\* invocation received, id and data bag alike; so, the store persisting what it is
\* given, a session stored with a returned id and then loaded yields the data bag the
\* handler left.
C15_SessionHandedOverIntact ==
    \A p \in Procs :
        /\ \A i \in 1..Len(calls[p]) : calls[p][i].session = In(p).session
        /\ (ChangedIn(p) /\ Returned(p) /\ IsOk(Unwrap(answer[p]))
              /\ IsSome(Unwrap(answer[p]).val)) =>
             load_session(session_store, In(p).session.id) = Some(In(p).session.data)

\* C15 witness: a changed session stored with a returned id, and a destroyed session
\* handed to destroy_session.
C15_Witness ==
    \E p, q \in Procs :
        /\ ChangedIn(p) /\ Returned(p) /\ Unwrap(answer[p]) = Ok(Some(SidNew))
        /\ load_session(session_store, In(p).session.id) = Some("kv")
        /\ DestroyedIn(q) /\ Len(calls[q]) = 1

\* Everything an invocation holds: its arguments, locals, calls and results
Local(p) ==
    <<pc[p], reply[p], session_with_store[p], cookie_options[p], calls[p], answer[p],
      result[p], response[p]>>

\* The result of an invocation run on its own: decided by its own arguments and by
\* what the store answered to its own call
AloneResult(p) ==
    LET co == In(p).cookie_options
        a == Unwrap(answer[p])
    IN  IF In(p).session.destroyed
        THEN IF a.tag = "Err"
             THEN Err([kind |-> "DestroyError", source |-> a.val])
             ELSE Ok([reply |-> InReply(p), cookie_options |-> Expired(co)])
        ELSE IF In(p).session.changed
        THEN IF a.tag = "Err"
             THEN Err([kind |-> "StoreError", source |-> a.val])
             ELSE Ok([reply |-> InReply(p),
                      cookie_options |->
                          IF a.val = None THEN co ELSE [co EXCEPT !.cookie_value = a.val]])
        ELSE Ok([reply |-> InReply(p), cookie_options |-> co])

\* C16: concurrent invocations for different sessions against one store proceed
\* independently: under every interleaving each invocation's result is the one it has
\* when run alone; an invocation can always start and its store call can always be
\* answered, whatever the other invocations are doing (no lock); and a step of one
\* invocation changes nothing another invocation holds (no shared state).
C16_InvocationsIndependent ==
    /\ [](\A p \in Procs :
            /\ Returned(p) => Unwrap(result[p]) = AloneResult(p)
            /\ pc[p] = "idle" => ENABLED New(p)
            /\ pc[p] = "destroy_session" => ENABLED DestroyAnswer(p)
            /\ pc[p] = "store_session" => ENABLED StoreAnswer(p))
    /\ [][\A p \in Procs : \A q \in Procs \ {p} :
            Local(p)' # Local(p) => Local(q)' = Local(q)]_vars

\* C16 witness: one invocation is at its await while the other, started after it,
\* has already returned a reply with a new id.
C16_Witness ==
    \E p, q \in Procs :
        /\ p # q
        /\ pc[p] = "destroy_session"
        /\ ChangedIn(q) /\ Produced(q) /\ Unwrap(answer[q]) = Ok(Some(SidNew))

\* C17: over any sequence of binds against one store, a reply whose cookie value is a
\* non-empty id other than the incoming cookie value is produced only when
\* store_session, in the same invocation, succeeded and returned that id, the session
\* then being persisted; and a reply for a destroyed session always expires the cookie
\* (value "", max-age 0) and is produced only after destroy_session succeeded, the
\* session then being gone from the store.
C17_CookieReflectsStore ==
    \A p \in Procs :
        Produced(p) =>
            LET v == Out(p).cookie_options.cookie_value
            IN  /\ (IsSome(v) /\ Unwrap(v) # EmptyString /\ v # In(p).cookie_options.cookie_value) =>
                     /\ ChangedIn(p)
                     /\ Len(calls[p]) = 1 /\ calls[p][1].op = "store_session"
                     /\ IsSome(answer[p]) /\ Unwrap(answer[p]) = Ok(v)
                     /\ load_session(session_store, In(p).session.id) = Some(In(p).session.data)
                /\ DestroyedIn(p) =>
                     /\ v = Some(EmptyString)
                     /\ Out(p).cookie_options.max_age = Some(0)
                     /\ Len(calls[p]) = 1 /\ calls[p][1].op = "destroy_session"
                     /\ IsSome(answer[p]) /\ Unwrap(answer[p]).tag = "Ok"
                     /\ load_session(session_store, In(p).session.id) = None

\* C17 witness: a reply for a destroyed session whose cookie had a value, beside a
\* reply carrying a new id for a session the store holds.
C17_Witness ==
    \E p, q \in Procs :
        /\ Produced(p) /\ DestroyedIn(p)
        /\ In(p).cookie_options.cookie_value = Some(SidOld)
        /\ Produced(q) /\ ChangedIn(q)
        /\ Out(q).cookie_options.cookie_value = Some(SidNew)
        /\ load_session(session_store, In(q).session.id) = Some("kv")

\* C18: WithSession::new never calls load_session or clear_store: every store call it
\* issues, and every call it waits on, is destroy_session or store_session.
C18_OnlyDestroyAndStore ==
    \A p \in Procs :
        /\ \A i \in 1..Len(calls[p]) : calls[p][i].op \in {"destroy_session", "store_session"}
        /\ pc[p] \notin {"load_session", "clear_store"}

\* C18 witness: one invocation has called destroy_session and the other store_session.
C18_Witness ==
    \E p, q \in Procs :
        /\ Len(calls[p]) = 1 /\ calls[p][1].op = "destroy_session"
        /\ Len(calls[q]) = 1 /\ calls[q][1].op = "store_session"

===========================================================================
